---- MODULE Spec2Model ----
(***************************************************************************)
(* KeyLang, the rarity -> drop weight expression language of gachapy       *)
(* (gachapy/keylang.py): tokenizer, recursive-descent parser and           *)
(* interpreter; and the gacha game built on it: items, banners and         *)
(* players (gachapy/objects.py) and the controller (gachapy/controller.py).*)
(*                                                                         *)
(* A string is a sequence of one-character strings.  A Python float is     *)
(* modelled by the exact rational it stands for, [num, den] in lowest      *)
(* terms with den > 0; rounding is not modelled.  A call that raises is    *)
(* modelled by a record naming the exception.                              *)
(***************************************************************************)
EXTENDS Integers, Sequences, FiniteSets, TLC

VARIABLES src, toks, parsed, rarity, result, pc,
          item, banner, player, pool, banners, players, last,
          heap, stack, returned, thread,
          ctrl, lists

keylang == <<src, toks, parsed, rarity, result, pc>>

gacha == <<item, banner, player, pool, banners, players, last>>

machine == <<heap, stack, returned, thread>>

fleet == <<ctrl, lists>>

vars == <<src, toks, parsed, rarity, result, pc,
          item, banner, player, pool, banners, players, last,
          heap, stack, returned, thread,
          ctrl, lists>>

(***************************************************************************)
(* Bounds of the checked inputs.                                           *)
(***************************************************************************)
MaxLen == 4

MaxStrLen == 4

(***************************************************************************)
(* Characters and strings.                                                 *)
(***************************************************************************)
Whitespace == {" ", "\t", "\n"}

Digits == {"0", "1", "2", "3", "4", "5", "6", "7", "8", "9"}

DigitVal(c) ==
    CASE c = "0" -> 0 [] c = "1" -> 1 [] c = "2" -> 2 [] c = "3" -> 3
      [] c = "4" -> 4 [] c = "5" -> 5 [] c = "6" -> 6 [] c = "7" -> 7
      [] c = "8" -> 8 [] c = "9" -> 9

RarityMarker == <<"R">>

LParen == <<"(">>

RParen == <<")">>

None == [type |-> "NoneType"]

(***************************************************************************)
(* Floats as exact rationals.  A power with a non-integer exponent has no   *)
(* exact rational value; float_pow marks it InexactPower, and TypeOK       *)
(* checks that no checked input reaches one.                               *)
(***************************************************************************)
Abs(n) == IF n < 0 THEN -n ELSE n

RECURSIVE GCD(_, _)
GCD(a, b) == IF b = 0 THEN a ELSE GCD(b, a % b)

Rat(n, d) ==
    LET s == IF d < 0 THEN -1 ELSE 1
        g == GCD(Abs(n), Abs(d))
    IN  [num |-> (s * n) \div g, den |-> (s * d) \div g]

RECURSIVE IntPow(_, _)
IntPow(b, e) == IF e = 0 THEN 1 ELSE b * IntPow(b, e - 1)

Value(v) == [kind |-> "value", value |-> v]

Raised(e) == [kind |-> e]

\* The exception that reaches the caller of a binary operation when an
\* operand raised: the left operand is evaluated first.
Fault(x, y) == IF x.kind # "value" THEN x ELSE y

Faulted(x, y) == x.kind # "value" \/ y.kind # "value"

float_add(x, y) ==
    IF Faulted(x, y) THEN Fault(x, y)
    ELSE LET a == x.value
             b == y.value
         IN  Value(Rat(a.num * b.den + b.num * a.den, a.den * b.den))

float_sub(x, y) ==
    IF Faulted(x, y) THEN Fault(x, y)
    ELSE LET a == x.value
             b == y.value
         IN  Value(Rat(a.num * b.den - b.num * a.den, a.den * b.den))

float_mul(x, y) ==
    IF Faulted(x, y) THEN Fault(x, y)
    ELSE LET a == x.value
             b == y.value
         IN  Value(Rat(a.num * b.num, a.den * b.den))

float_truediv(x, y) ==
    IF Faulted(x, y) THEN Fault(x, y)
    ELSE LET a == x.value
             b == y.value
         IN  IF b.num = 0 THEN Raised("ZeroDivisionError")
             ELSE Value(Rat(a.num * b.den, a.den * b.num))

float_pow(x, y) ==
    IF Faulted(x, y) THEN Fault(x, y)
    ELSE LET a == x.value
             b == y.value
         IN  IF a = Rat(1, 1) THEN Value(a)
             ELSE IF b.den # 1 THEN Raised("InexactPower")
             ELSE IF b.num >= 0
             THEN Value(Rat(IntPow(a.num, b.num), IntPow(a.den, b.num)))
             ELSE IF a.num = 0 THEN Raised("ZeroDivisionError")
             ELSE Value(Rat(IntPow(a.den, -b.num), IntPow(a.num, -b.num)))

(***************************************************************************)
(* float(num): the float literals over the characters of the model, an     *)
(* optional sign, then digits with at most one decimal point and at least  *)
(* one digit.  Anything else raises ValueError.                            *)
(***************************************************************************)
RECURSIVE DigitsValue(_)
DigitsValue(ds) ==
    IF ds = <<>> THEN 0
    ELSE 10 * DigitsValue(SubSeq(ds, 1, Len(ds) - 1)) + DigitVal(ds[Len(ds)])

float(num) ==
    LET signed == num # <<>> /\ num[1] \in {"+", "-"}
        body   == IF signed THEN Tail(num) ELSE num
        dots   == {i \in 1..Len(body) : body[i] = "."}
        ok     == /\ \A i \in 1..Len(body) : body[i] \in Digits \cup {"."}
                  /\ Cardinality(dots) <= 1
                  /\ \E i \in 1..Len(body) : body[i] \in Digits
        digs   == SelectSeq(body, LAMBDA c : c \in Digits)
        dot    == IF dots = {} THEN Len(body) ELSE CHOOSE i \in dots : TRUE
        frac   == Len(body) - dot
        mag    == Rat(DigitsValue(digs), IntPow(10, frac))
    IN  IF ~ok THEN Raised("ValueError")
        ELSE IF signed /\ num[1] = "-"
             THEN Value([num |-> -mag.num, den |-> mag.den])
             ELSE Value(mag)

(***************************************************************************)
(* _tokenize: str.split() with no separator.  Skip a run of whitespace,    *)
(* then take characters up to the next whitespace as one token.            *)
(***************************************************************************)
RECURSIVE RunEnd(_, _)
RunEnd(s, j) ==
    IF j < Len(s) /\ s[j + 1] \notin Whitespace THEN RunEnd(s, j + 1) ELSE j

RECURSIVE split(_, _, _)
split(s, i, acc) ==
    IF i > Len(s) THEN acc
    ELSE IF s[i] \in Whitespace THEN split(s, i + 1, acc)
    ELSE LET j == RunEnd(s, i)
         IN  split(s, j + 1, Append(acc, SubSeq(s, i, j)))

\* s.split(" ") in place of s.split(): cut at every single space, keeping
\* empty strings, and at no other whitespace.
RECURSIVE split_on_space(_, _, _)
split_on_space(s, cur, acc) ==
    IF s = <<>> THEN Append(acc, cur)
    ELSE IF s[1] = " " THEN split_on_space(Tail(s), <<>>, Append(acc, cur))
    ELSE split_on_space(Tail(s), Append(cur, s[1]), acc)

_tokenize_on_space(s) == split_on_space(s, <<>>, <<>>)

_tokenize(s) == split(s, 1, <<>>)

(***************************************************************************)
(* sep.join(strs)                                                          *)
(***************************************************************************)
RECURSIVE join(_, _)
join(sep, strs) ==
    IF strs = <<>> THEN <<>>
    ELSE IF Len(strs) = 1 THEN strs[1]
    ELSE strs[1] \o sep \o join(sep, Tail(strs))

(***************************************************************************)
(* The AST classes.  Every node has left, right and data; the class is     *)
(* the type field.                                                         *)
(***************************************************************************)
Ast(type, left, right, data) ==
    [type |-> type, left |-> left, right |-> right, data |-> data]

_Expr(left, right, data) == Ast("_Expr", left, right, data)

_Term(left, right, data) == Ast("_Term", left, right, data)

_Factor(left, right, data) == Ast("_Factor", left, right, data)

_Float(data) == Ast("_Float", None, None, data)

_Rar == Ast("_Rar", None, None, None)

(***************************************************************************)
(* The parser.  Each _parse_* takes the token list and gives the outcome   *)
(* of the call: the exception raised ("none" when it returns), the AST     *)
(* returned, and the token list as the call leaves it (the list is shared  *)
(* and consumed from the front with pop(0)).                               *)
(***************************************************************************)
Return(ast, tokens) ==
    [exc |-> "none", ast |-> ast, tokens |-> tokens, msg |-> None]

Raise(exc, text, tokens) ==
    [exc |-> exc, ast |-> None, tokens |-> tokens,
     msg |-> [text |-> text, at |-> join(<<" ">>, tokens)]]

RaiseIndexError(tokens) ==
    [exc |-> "IndexError", ast |-> None, tokens |-> tokens, msg |-> None]

_parse_const(tokens) ==
    IF tokens[1] = RarityMarker THEN Return(_Rar, tokens)
    ELSE IF float(tokens[1]).kind = "value"
         THEN Return(_Float(float(tokens[1]).value), Tail(tokens))
         ELSE Raise("SyntaxError", "Float literal not found -> ", Tail(tokens))

\* The node built from the left operand and the outcome of parsing the right
\* operand; an exception raised by the right operand propagates.
Node(type, left, right, data) ==
    IF right.exc # "none" THEN right
    ELSE Return(Ast(type, left.ast, right.ast, data), right.tokens)

\* _parse_base after the inner expression of a parenthesis: tokens.pop(0)
\* and the comparison with ')'.
CloseParen(base) ==
    IF base.exc # "none" THEN base
    ELSE IF Len(base.tokens) = 0 THEN RaiseIndexError(base.tokens)
    ELSE IF base.tokens[1] # RParen
         THEN Raise("SyntaxError", "Mismatched parentheses at -> ",
                    Tail(base.tokens))
         ELSE Return(base.ast, Tail(base.tokens))

RECURSIVE _parse_expr(_), _parse_term(_), _parse_factor(_), _parse_base(_)
RECURSIVE ExprRest(_), TermRest(_), FactorRest(_)

_parse_base(tokens) ==
    IF Len(tokens) = 0
    THEN [exc |-> "SyntaxError", ast |-> None, tokens |-> tokens,
          msg |-> [text |-> "Abrupt end of expression found", at |-> <<>>]]
    ELSE IF tokens[1] = LParen THEN CloseParen(_parse_expr(Tail(tokens)))
    ELSE _parse_const(tokens)

\* _parse_factor after base = _parse_base(tokens).
FactorRest(base) ==
    IF base.exc # "none" THEN base
    ELSE IF Len(base.tokens) = 0 THEN base
    ELSE IF base.tokens[1] = <<"^">>
         THEN Node("_Factor", base, _parse_factor(Tail(base.tokens)), "^")
         ELSE base

_parse_factor(tokens) == FactorRest(_parse_base(tokens))

\* _parse_term taking its right operand from _parse_expr.
TermRest_into_expr(factor) ==
    IF factor.exc # "none" THEN factor
    ELSE IF Len(factor.tokens) = 0 THEN factor
    ELSE IF factor.tokens[1] = <<"*">>
         THEN Node("_Term", factor, _parse_expr(Tail(factor.tokens)), "*")
    ELSE IF factor.tokens[1] = <<"/">>
         THEN Node("_Term", factor, _parse_expr(Tail(factor.tokens)), "/")
         ELSE factor

\* _parse_term after factor = _parse_factor(tokens).
TermRest(factor) ==
    IF factor.exc # "none" THEN factor
    ELSE IF Len(factor.tokens) = 0 THEN factor
    ELSE IF factor.tokens[1] = <<"*">>
         THEN Node("_Term", factor, _parse_term(Tail(factor.tokens)), "*")
    ELSE IF factor.tokens[1] = <<"/">>
         THEN Node("_Term", factor, _parse_term(Tail(factor.tokens)), "/")
         ELSE factor

_parse_term(tokens) == TermRest(_parse_factor(tokens))

\* _parse_expr taking its right operand from _parse_term, so that a chain
\* stops after one operator.
ExprRest_one_step(term) ==
    IF term.exc # "none" THEN term
    ELSE IF Len(term.tokens) = 0 THEN term
    ELSE IF term.tokens[1] = <<"+">>
         THEN Node("_Expr", term, _parse_term(Tail(term.tokens)), "+")
    ELSE IF term.tokens[1] = <<"-">>
         THEN Node("_Expr", term, _parse_term(Tail(term.tokens)), "-")
         ELSE term

\* _parse_expr after term = _parse_term(tokens).
ExprRest(term) ==
    IF term.exc # "none" THEN term
    ELSE IF Len(term.tokens) = 0 THEN term
    ELSE IF term.tokens[1] = <<"+">>
         THEN Node("_Expr", term, _parse_expr(Tail(term.tokens)), "+")
    ELSE IF term.tokens[1] = <<"-">>
         THEN Node("_Expr", term, _parse_expr(Tail(term.tokens)), "-")
         ELSE term

_parse_expr(tokens) == ExprRest(_parse_term(tokens))

_parse_tokens(tokens) == _parse_expr(tokens)

parse(s) == _parse_tokens(_tokenize(s))

(***************************************************************************)
(* The interpreter.                                                        *)
(***************************************************************************)
RECURSIVE interpret(_, _)
interpret(ast, r) ==
    CASE ast.type = "_Expr" ->
           IF ast.data = "+"
           THEN float_add(interpret(ast.left, r), interpret(ast.right, r))
           ELSE float_sub(interpret(ast.left, r), interpret(ast.right, r))
      [] ast.type = "_Term" ->
           IF ast.data = "*"
           THEN float_mul(interpret(ast.left, r), interpret(ast.right, r))
           ELSE float_truediv(interpret(ast.left, r), interpret(ast.right, r))
      [] ast.type = "_Factor" ->
           float_pow(interpret(ast.left, r), interpret(ast.right, r))
      [] ast.type = "_Float" -> Value(ast.data)
      [] ast.type = "_Rar" -> Value(r)
      [] OTHER -> Raised("ReturnsNone")

(***************************************************************************)
(* The KeyLang grammar of the module documentation, read as a derivation:  *)
(*   Expr -> Term + Expr | Term - Expr | Term                              *)
(*   Term -> Factor * Term | Factor / Term | Factor                        *)
(*   Factor -> Base ^ Factor | Base                                        *)
(*   Base -> Const | ( Expr )        Const -> <float literal> | <rarity>   *)
(* Each D* gives the status of deriving a prefix of the tokens from the    *)
(* production, the value of the derivation tree with R bound to r, and     *)
(* the tokens after the derived prefix.                                    *)
(***************************************************************************)
Derived(val, rest) == [status |-> "ok", val |-> val, rest |-> rest]

Underivable(why, rest) == [status |-> why, val |-> None, rest |-> rest]

Apply(o, x, y) ==
    CASE o = <<"+">> -> float_add(x, y)
      [] o = <<"-">> -> float_sub(x, y)
      [] o = <<"*">> -> float_mul(x, y)
      [] o = <<"/">> -> float_truediv(x, y)
      [] o = <<"^">> -> float_pow(x, y)

RECURSIVE DExpr(_, _), DTerm(_, _), DFactor(_, _), DBase(_, _)

DConst(ts, r) ==
    IF ts[1] = RarityMarker THEN Derived(Value(r), Tail(ts))
    ELSE IF float(ts[1]).kind = "value" THEN Derived(float(ts[1]), Tail(ts))
    ELSE Underivable("operand", ts)

DBase(ts, r) ==
    IF ts = <<>> THEN Underivable("abrupt", ts)
    ELSE IF ts[1] = LParen
    THEN LET e == DExpr(Tail(ts), r)
         IN  IF e.status # "ok" THEN e
             ELSE IF e.rest = <<>> \/ e.rest[1] # RParen
                  THEN Underivable("parenthesis", e.rest)
                  ELSE Derived(e.val, Tail(e.rest))
    ELSE DConst(ts, r)

DFactor(ts, r) ==
    LET b == DBase(ts, r)
    IN  IF b.status = "ok" /\ b.rest # <<>> /\ b.rest[1] = <<"^">>
        THEN LET f == DFactor(Tail(b.rest), r)
             IN  IF f.status # "ok" THEN f
                 ELSE Derived(Apply(<<"^">>, b.val, f.val), f.rest)
        ELSE b

DTerm(ts, r) ==
    LET f == DFactor(ts, r)
    IN  IF f.status = "ok" /\ f.rest # <<>> /\ f.rest[1] \in {<<"*">>, <<"/">>}
        THEN LET t == DTerm(Tail(f.rest), r)
             IN  IF t.status # "ok" THEN t
                 ELSE Derived(Apply(f.rest[1], f.val, t.val), t.rest)
        ELSE f

DExpr(ts, r) ==
    LET t == DTerm(ts, r)
    IN  IF t.status = "ok" /\ t.rest # <<>> /\ t.rest[1] \in {<<"+">>, <<"-">>}
        THEN LET e == DExpr(Tail(t.rest), r)
             IN  IF e.status # "ok" THEN e
                 ELSE Derived(Apply(t.rest[1], t.val, e.val), e.rest)
        ELSE t

GrammarStatus(ts) ==
    LET d == DExpr(ts, Rat(1, 1))
    IN  IF d.status # "ok" THEN d.status
        ELSE IF d.rest # <<>> THEN "trailing" ELSE "derivable"

(***************************************************************************)
(* The inputs: every token sequence of at most MaxLen tokens joined with   *)
(* single spaces, the expression shapes of the test suite and the module   *)
(* documentation, and every raw string of at most MaxStrLen characters.    *)
(***************************************************************************)
Literals == {<<"0">>, <<"1">>, <<"2">>}

Operators == {<<"+">>, <<"-">>, <<"*">>, <<"/">>, <<"^">>}

LowOperators == {<<"+">>, <<"-">>, <<"*">>, <<"/">>}

Tokens == Literals \cup Operators \cup {RarityMarker, LParen, RParen, <<"x">>}

Operands == Literals \cup {RarityMarker}

WideOperands == Operands \cup {<<"3">>, <<"1", "0">>, <<"1", ".", "5">>}

RawChars == {" ", "\t", "1", "+", "(", "R"}

SeqsUpTo(S, n) == UNION {[1..k -> S] : k \in 0..n}

Chains ==
    {<<a, o, b, p, c>> : a \in Operands, o \in Operators, b \in Operands,
                         p \in Operators, c \in Operands}
    \cup
    {<<a, o, b, p, c>> : a \in WideOperands, o \in LowOperators,
                         b \in WideOperands, p \in LowOperators,
                         c \in WideOperands}

Grouped ==
    {<<a, o, LParen, b, p, c, RParen>> :
        a \in WideOperands, o \in LowOperators, b \in WideOperands,
        p \in LowOperators, c \in WideOperands}

Examples ==
    { <<"2", "*", "(", "1", "+", "R", ")">>,
      <<" ", "1", "\t", "\n", "+", " ", " ", "R", "\n">>,
      <<" ", "\t", "\n", " ", " ", " ">>,
      join(<<" ">>, << <<"2">>, <<"*">>, LParen, <<"1">>, <<"+">>,
                       RarityMarker, RParen, <<"/">>, <<"5">>, <<"^">>,
                       <<"2">> >>) }

Sources ==
    {join(<<" ">>, ts) : ts \in SeqsUpTo(Tokens, MaxLen) \cup Chains \cup Grouped}
    \cup SeqsUpTo(RawChars, MaxStrLen)
    \cup Examples

Rarities == {Rat(0, 1), Rat(1, 1), Rat(2, 1)}

(***************************************************************************)
(* The objects of the game.  An object is named by a reference; two        *)
(* objects with equal fields are still two objects.  item, banner and      *)
(* player give the fields of each constructed object, None for a           *)
(* reference no constructor has returned yet.  pool, banners and players   *)
(* are the three lists of the controller, lists of references.  last       *)
(* records the latest call: its name, its arguments, the exception it      *)
(* raised ("none" if it returned) and the value it returned.               *)
(***************************************************************************)
ItemObjs == {"i1", "i2", "i3"}

BannerObjs == {"b1", "b2"}

PlayerObjs == {"p1", "p2"}

Threads == {"t1", "t2"}

\* No parse under way: no node allocated, no call frame, nothing returned,
\* no thread interpreting.
MachineIdle ==
    /\ heap = <<>>
    /\ stack = <<>>
    /\ returned = None
    /\ thread = [t \in Threads |-> None]

ControllerObjs == {"c1", "c2"}

\* The three lists that are the default values of the parameters of
\* Controller.__init__, made once when the function is defined.
ListObjs == {"items=[]", "banners=[]", "players=[]"}

NoControllers ==
    /\ ctrl = [c \in ControllerObjs |-> None]
    /\ lists = [l \in ListObjs |-> <<>>]

NoObjects ==
    /\ item = [o \in ItemObjs |-> None]
    /\ banner = [b \in BannerObjs |-> None]
    /\ player = [p \in PlayerObjs |-> None]
    /\ pool = <<>>
    /\ banners = <<>>
    /\ players = <<>>
    /\ last = None

(***************************************************************************)
(* The state machine: a caller holds an expression string, may tokenize    *)
(* it, parses it, and interprets the AST it got with a rarity.             *)
(***************************************************************************)
Init ==
    /\ src \in Sources
    /\ toks = <<>>
    /\ parsed = None
    /\ rarity = None
    /\ result = None
    /\ pc = "start"
    /\ NoObjects
    /\ MachineIdle
    /\ NoControllers

Tokenize ==
    /\ pc = "start"
    /\ toks' = _tokenize(src)
    /\ pc' = "tokenized"
    /\ UNCHANGED <<src, parsed, rarity, result>>
    /\ UNCHANGED <<gacha, machine, fleet>>

Parse ==
    /\ pc \in {"start", "tokenized"}
    /\ parsed' = parse(src)
    /\ pc' = "parsed"
    /\ UNCHANGED <<src, toks, rarity, result>>
    /\ UNCHANGED <<gacha, machine, fleet>>

Interpret(r) ==
    /\ pc = "parsed"
    /\ parsed.exc = "none"
    /\ rarity' = r
    /\ result' = interpret(parsed.ast, r)
    /\ pc' = "interpreted"
    /\ UNCHANGED <<src, toks, parsed>>
    /\ UNCHANGED <<gacha, machine, fleet>>

Next ==
    \/ Tokenize
    \/ Parse
    \/ \E r \in Rarities : Interpret(r)

Spec == Init /\ [][Next]_vars

TypeOK ==
    /\ pc \in {"start", "tokenized", "parsed", "interpreted"}
    /\ pc \in {"parsed", "interpreted"} => parsed.exc \in {"none", "SyntaxError", "IndexError"}
    /\ pc = "interpreted" => result.kind \in {"value", "ZeroDivisionError"}
    /\ pc = "interpreted" /\ GrammarStatus(_tokenize(src)) = "derivable"
          => DExpr(_tokenize(src), rarity).val.kind \in {"value", "ZeroDivisionError"}

(***************************************************************************)
(* Vocabulary of the properties.                                           *)
(***************************************************************************)
\* The positions where a maximal run of non-whitespace characters starts.
RunStarts(s) ==
    {i \in 1..Len(s) :
        s[i] \notin Whitespace /\ (i = 1 \/ s[i - 1] \in Whitespace)}

\* The position where the maximal run starting at i ends.
RunStop(s, i) ==
    CHOOSE j \in i..Len(s) :
        /\ \A m \in i..j : s[m] \notin Whitespace
        /\ (j = Len(s) \/ s[j + 1] \in Whitespace)

\* The maximal runs of s in order of position.
Words(s) ==
    LET starts == RunStarts(s)
    IN  [k \in 1..Cardinality(starts) |->
            LET i == CHOOSE n \in starts :
                        Cardinality({m \in starts : m < n}) = k - 1
            IN  SubSeq(s, i, RunStop(s, i))]

Parsed == pc \in {"parsed", "interpreted"}

Interpreted == pc = "interpreted"

IsLiteral(t) == float(t).kind = "value"

IsOperand(t) == t = RarityMarker \/ IsLiteral(t)

Opnd(t) == IF t = RarityMarker THEN Value(rarity) ELSE float(t)

Level(o) ==
    CASE o \in {<<"+">>, <<"-">>} -> 1
      [] o \in {<<"*">>, <<"/">>} -> 2
      [] o = <<"^">> -> 3

\* The input is a o b p c over operands and binary operators.
IsChain(w) ==
    /\ Len(w) = 5
    /\ w[2] \in Operators /\ w[4] \in Operators
    /\ IsOperand(w[1]) /\ IsOperand(w[3]) /\ IsOperand(w[5])

LiteralChain(w) ==
    IsChain(w) /\ IsLiteral(w[1]) /\ IsLiteral(w[3]) /\ IsLiteral(w[5])

GroupRight(w) == Apply(w[2], Opnd(w[1]), Apply(w[4], Opnd(w[3]), Opnd(w[5])))

GroupLeft(w) == Apply(w[4], Apply(w[2], Opnd(w[1]), Opnd(w[3])), Opnd(w[5]))

\* The input is a * ( b + c ) over operands.
IsProductOfSum(w) ==
    /\ Len(w) = 7
    /\ w[2] = <<"*">> /\ w[3] = LParen /\ w[5] = <<"+">> /\ w[7] = RParen
    /\ IsOperand(w[1]) /\ IsOperand(w[4]) /\ IsOperand(w[6])

(***************************************************************************)
(* C1.  Every token sequence derivable from Expr parses to an AST without  *)
(* raising, and interpreting that AST at rarity r gives the value of the   *)
(* right-recursive derivation tree with R bound to r.                      *)
(***************************************************************************)
C1_DerivableParsesToDerivationValue ==
    Parsed /\ GrammarStatus(Words(src)) = "derivable"
    => /\ parsed.exc = "none"
       /\ Interpreted => result = DExpr(Words(src), rarity).val

(***************************************************************************)
(* C2.  Variable substitution on either side of an operator: for every     *)
(* literal a and rarity r, "a + R" evaluates to a + r and "R + a"          *)
(* evaluates to r + a.                                                     *)
(***************************************************************************)
C2_VariableSubstitution ==
    LET w == Words(src)
    IN  Parsed /\ Len(w) = 3 /\ w[2] = <<"+">>
        => /\ IsLiteral(w[1]) /\ w[3] = RarityMarker
                => /\ parsed.exc = "none"
                   /\ Interpreted
                        => result = float_add(float(w[1]), Value(rarity))
           /\ w[1] = RarityMarker /\ IsLiteral(w[3])
                => /\ parsed.exc = "none"
                   /\ Interpreted
                        => result = float_add(Value(rarity), float(w[3]))

(***************************************************************************)
(* C3.  Parentheses override precedence: for operands a, b, c, each a      *)
(* literal or R, "a * ( b + c )" parses and evaluates to a * (b + c).      *)
(***************************************************************************)
C3_ParenthesesOverridePrecedence ==
    LET w == Words(src)
    IN  Parsed /\ IsProductOfSum(w)
        => /\ parsed.exc = "none"
           /\ Interpreted
                => result = Apply(<<"*">>, Opnd(w[1]),
                                  Apply(<<"+">>, Opnd(w[4]), Opnd(w[6])))

(***************************************************************************)
(* C4.  Operator precedence: for literals a, b, c and operators o, p of    *)
(* different levels (+ - below * / below ^), "a o b p c" evaluates with    *)
(* the higher operator applied first: a + b * c is a + (b * c) and         *)
(* a * b + c is (a * b) + c.                                               *)
(***************************************************************************)
C4_OperatorPrecedence ==
    LET w == Words(src)
    IN  Parsed /\ LiteralChain(w) /\ Level(w[2]) # Level(w[4])
        => /\ parsed.exc = "none"
           /\ Interpreted /\ Level(w[2]) < Level(w[4]) => result = GroupRight(w)
           /\ Interpreted /\ Level(w[2]) > Level(w[4]) => result = GroupLeft(w)

C4_Witness ==
    /\ Interpreted
    /\ Words(src) = << <<"1">>, <<"+">>, <<"2">>, <<"*">>, <<"3">> >>
    /\ result = Value(Rat(7, 1))

(***************************************************************************)
(* C5.  Right associativity: for literals a, b, c and operators o, p of    *)
(* the same level, "a o b p c" evaluates to a o (b p c); "10 - 3 - 2" is   *)
(* 9, not 5.                                                               *)
(***************************************************************************)
C5_RightAssociativity ==
    LET w == Words(src)
    IN  Parsed /\ LiteralChain(w) /\ Level(w[2]) = Level(w[4])
        => /\ parsed.exc = "none"
           /\ Interpreted => result = GroupRight(w)

C5_Witness ==
    /\ Interpreted
    /\ Words(src) = << <<"1", "0">>, <<"-">>, <<"3">>, <<"-">>, <<"2">> >>
    /\ result = Value(Rat(9, 1))
    /\ result # GroupLeft(Words(src))

(***************************************************************************)
(* C6.  Parenthesis mismatch: when the input opens with "(", the inner     *)
(* Expr has been parsed and the next token is not ")" or is missing,       *)
(* parse raises SyntaxError and no other error.                            *)
(***************************************************************************)
C6_MismatchIsSyntaxError ==
    LET w == Words(src)
        inner == _parse_expr(Tail(w))
    IN  /\ Parsed /\ w # <<>> /\ w[1] = LParen
        /\ inner.exc = "none"
        /\ (inner.tokens = <<>> \/ inner.tokens[1] # RParen)
        => parsed.exc = "SyntaxError"

(***************************************************************************)
(* C7.  Abrupt end: when the tokens run out where the grammar requires a   *)
(* Base (empty or blank input, after a binary operator, after "("),        *)
(* parse raises SyntaxError reporting an abrupt end and returns no AST.    *)
(***************************************************************************)
C7_AbruptEndIsSyntaxError ==
    Parsed /\ GrammarStatus(Words(src)) = "abrupt"
    => /\ parsed.exc = "SyntaxError"
       /\ parsed.msg.text = "Abrupt end of expression found"
       /\ parsed.ast = None

(***************************************************************************)
(* C8.  Invalid operand: when the token where the grammar requires an      *)
(* operand is neither R nor a float literal, parse raises SyntaxError and  *)
(* returns no AST.                                                         *)
(***************************************************************************)
C8_InvalidOperandIsSyntaxError ==
    Parsed /\ GrammarStatus(Words(src)) = "operand"
    => parsed.exc = "SyntaxError" /\ parsed.ast = None

(***************************************************************************)
(* C9.  A malformed expression yields no AST: for every token sequence     *)
(* not derivable from Expr, including a well-formed expression followed    *)
(* by further tokens, parse raises SyntaxError.                            *)
(***************************************************************************)
C9_MalformedYieldsNoAst ==
    Parsed /\ GrammarStatus(Words(src)) # "derivable"
    => parsed.exc = "SyntaxError" /\ parsed.ast = None

(***************************************************************************)
(* C10.  Tokenizer: the tokens of a string are exactly its maximal runs    *)
(* of non-whitespace characters, in order; the empty string has no         *)
(* tokens, and a string without whitespace is a single token, operators    *)
(* and parentheses included.                                               *)
(***************************************************************************)
C10_TokensAreMaximalRuns ==
    pc = "tokenized"
    => /\ toks = Words(src)
       /\ src = <<>> => toks = <<>>
       /\ src # <<>> /\ (\A i \in 1..Len(src) : src[i] \notin Whitespace)
            => toks = <<src>>

C10_Witness ==
    /\ pc = "tokenized"
    /\ src = <<" ", "1", "\t", "\n", "+", " ", " ", "R", "\n">>
    /\ toks = << <<"1">>, <<"+">>, <<"R">> >>

(***************************************************************************)
(* C11.  Arithmetic faults belong to interpretation: "a / d" whose divisor *)
(* d evaluates to zero (the literal 0, or R at rarity 0) parses            *)
(* successfully, and interpret on its AST fails with ZeroDivisionError:    *)
(* it returns no value and does not fail with SyntaxError.                 *)
(***************************************************************************)
IsQuotient(w) ==
    /\ Len(w) = 3
    /\ IsOperand(w[1])
    /\ w[2] = <<"/">>
    /\ IsOperand(w[3])

C11_ZeroDivisorFaultsAtInterpret ==
    LET w == Words(src)
    IN  Parsed /\ IsQuotient(w)
        => /\ parsed.exc = "none"
           /\ Interpreted /\ Opnd(w[3]) = Value(Rat(0, 1))
                => result.kind = "ZeroDivisionError"

\* The same for a literal dividend, where the rarity marker is not the
\* first token of the quotient.
C11_LiteralDividend ==
    LET w == Words(src)
    IN  Parsed /\ IsQuotient(w) /\ IsLiteral(w[1])
        => /\ parsed.exc = "none"
           /\ Interpreted /\ Opnd(w[3]) = Value(Rat(0, 1))
                => result.kind = "ZeroDivisionError"

(***************************************************************************)
(* gachapy/objects.py.  A rarity is an integer of the item; the            *)
(* interpreter gets it as the float of the same value.  A method is an     *)
(* operator of the object's fields before the call (self) that gives the   *)
(* fields after the call, the exception raised and the value returned.     *)
(* h is the heap of items, the fields of each item reference.              *)
(***************************************************************************)
MaxItems == 2

True == [type |-> "bool", value |-> TRUE]

False == [type |-> "bool", value |-> FALSE]

Ref(o) == [type |-> "ref", ref |-> o]

Item(name, id, r) == [type |-> "Item", name |-> name, id |-> id, rarity |-> r]

Deref(h, refs) == [i \in 1..Len(refs) |-> h[refs[i]]]

Done(self, exc, ret) == [self |-> self, exc |-> exc, ret |-> ret]

Call(op, args, exc, ret) == [op |-> op, args |-> args, exc |-> exc, ret |-> ret]

\* The loop of _get_random_weights: one interpret per item, in list order;
\* the first interpret that raises ends the call.
RECURSIVE WeightLoop(_, _, _)
AppendWeight(ast, items, weights, w) ==
    IF w.kind # "value" THEN w
    ELSE WeightLoop(ast, Tail(items), Append(weights, w.value))

WeightLoop(ast, items, weights) ==
    IF items = <<>> THEN Value(weights)
    ELSE AppendWeight(ast, items, weights,
                      interpret(ast, Rat(items[1].rarity, 1)))

WeightsOf(p, items) ==
    IF p.exc # "none" THEN Raised(p.exc)
    ELSE WeightLoop(p.ast, items, <<>>)

_get_random_weights(items, key) == WeightsOf(parse(key), items)

\* Banner.__init__ with its positional arguments after self: the call
\* raises TypeError unless there are five, and whatever
\* _get_random_weights raises.
BannerOf(name, id, items, price, key, w) ==
    IF w.kind # "value" THEN w
    ELSE Value([type |-> "Banner", name |-> name, id |-> id, items |-> items,
                price |-> price, key |-> key, _weights |-> w.value])

Banner(h, args) ==
    IF Len(args) # 5 THEN Raised("TypeError")
    ELSE BannerOf(args[1], args[2], args[3], args[4], args[5],
                  _get_random_weights(Deref(h, args[3]), args[5]))

\* Banner.add_item: the append is done when the weights are recomputed,
\* and stays done when the recomputation raises.
Banner_add_item_weighed(self, w) ==
    IF w.kind # "value" THEN Done(self, w.kind, None)
    ELSE Done([self EXCEPT !._weights = w.value], "none", None)

Banner_add_item(h, self, o) ==
    Banner_add_item_weighed(
        [self EXCEPT !.items = Append(self.items, o)],
        _get_random_weights(Deref(h, Append(self.items, o)), self.key))

\* list.index / list.remove: the first element equal to o, and Item.__eq__
\* compares the ids; 0 stands for the ValueError of a list without one.
index(h, items, o) ==
    IF \E i \in 1..Len(items) : h[items[i]].id = h[o].id
    THEN CHOOSE i \in 1..Len(items) :
            /\ h[items[i]].id = h[o].id
            /\ \A j \in 1..(i - 1) : h[items[j]].id # h[o].id
    ELSE 0

remove(items, i) == SubSeq(items, 1, i - 1) \o SubSeq(items, i + 1, Len(items))

\* Banner.remove_item: the bare except turns the ValueError of list.remove
\* and any exception of the recomputation into the return value False.
Banner_remove_item_weighed(self, w) ==
    IF w.kind # "value" THEN Done(self, "none", False)
    ELSE Done([self EXCEPT !._weights = w.value], "none", True)

Banner_remove_item(h, self, o) ==
    IF index(h, self.items, o) = 0 THEN Done(self, "none", False)
    ELSE Banner_remove_item_weighed(
            [self EXCEPT !.items = remove(self.items, index(h, self.items, o))],
            _get_random_weights(
                Deref(h, remove(self.items, index(h, self.items, o))),
                self.key))

(***************************************************************************)
(* A banner on its own: the caller has constructed the items, each with a  *)
(* rarity the Item invariant allows (>= 1), and a banner over some of      *)
(* them with a KeyLang key, and calls Banner.add_item and                  *)
(* Banner.remove_item with any of the items.  i1 and i3 are two items      *)
(* with the same id.  b2 is not constructed.                               *)
(***************************************************************************)
ItemIds == {"a", "b"}

ItemNames == {"sword"}

ItemRarities == {1, 2}

IdOf(o) == IF o = "i2" THEN "b" ELSE "a"

Items == {Item(n, i, r) : n \in ItemNames, i \in ItemIds, r \in ItemRarities}

Keys ==
    { <<"1">>,
      join(<<" ">>, << <<"1">>, <<"/">>, RarityMarker >>),
      join(<<" ">>, << <<"1">>, <<"/">>, <<"0">> >>),
      join(<<" ">>, << <<"2">>, <<"-">>, RarityMarker >>) }

InitialLists == {<<>>, <<"i1", "i2">>}

KeyLangIdle ==
    /\ src = <<>>
    /\ toks = <<>>
    /\ parsed = None
    /\ rarity = None
    /\ result = None
    /\ pc = "idle"

InitBanner ==
    /\ KeyLangIdle
    /\ MachineIdle
    /\ NoControllers
    /\ item \in {h \in [ItemObjs -> Items] : \A o \in ItemObjs : h[o].id = IdOf(o)}
    /\ \E key \in Keys, items \in InitialLists :
          /\ Banner(item, <<"std", "std", items, 1, key>>).kind = "value"
          /\ banner = [b \in BannerObjs |->
                          IF b = "b2" THEN None
                          ELSE Banner(item, <<"std", "std", items, 1, key>>).value]
    /\ player = [p \in PlayerObjs |-> None]
    /\ pool = <<>>
    /\ banners = <<>>
    /\ players = <<>>
    /\ last = None

BannerAddItem(b, o) ==
    /\ banner[b] # None
    /\ Len(banner[b].items) < MaxItems
    /\ banner' = [banner EXCEPT ![b] = Banner_add_item(item, banner[b], o).self]
    /\ last' = Call("Banner.add_item", <<b, o>>,
                    Banner_add_item(item, banner[b], o).exc,
                    Banner_add_item(item, banner[b], o).ret)
    /\ UNCHANGED <<item, player, pool, banners, players>>
    /\ UNCHANGED <<keylang, machine, fleet>>

BannerRemoveItem(b, o) ==
    /\ banner[b] # None
    /\ banner' = [banner EXCEPT ![b] = Banner_remove_item(item, banner[b], o).self]
    /\ last' = Call("Banner.remove_item", <<b, o>>,
                    Banner_remove_item(item, banner[b], o).exc,
                    Banner_remove_item(item, banner[b], o).ret)
    /\ UNCHANGED <<item, player, pool, banners, players>>
    /\ UNCHANGED <<keylang, machine, fleet>>

\* Item.change_rarity, called on a constructed item with any rarity, the
\* invalid 0 included.
GivenRarities == {0, 1, 2}

Item_change_rarity(self, r) ==
    IF r < 1 THEN Done(self, "none", False)
    ELSE Done([self EXCEPT !.rarity = r], "none", True)

ChangeRarity(o, r) ==
    /\ item[o] # None
    /\ item' = [item EXCEPT ![o] = Item_change_rarity(item[o], r).self]
    /\ last' = Call("Item.change_rarity", <<o, r>>, "none",
                    Item_change_rarity(item[o], r).ret)
    /\ UNCHANGED <<banner, player, pool, banners, players>>
    /\ UNCHANGED <<keylang, machine, fleet>>

NextBanner ==
    \/ \E b \in BannerObjs, o \in ItemObjs : BannerAddItem(b, o)
    \/ \E b \in BannerObjs, o \in ItemObjs : BannerRemoveItem(b, o)
    \/ \E o \in ItemObjs, r \in GivenRarities : ChangeRarity(o, r)

SpecBanner == InitBanner /\ [][NextBanner]_vars

(***************************************************************************)
(* C13.  Weight alignment under the banner's own operations: in every      *)
(* state reached from a constructed Banner by Banner.add_item and          *)
(* Banner.remove_item calls, returned or raised, _weights is as long as    *)
(* items and _weights[i] is interpret(parse(key), items[i].rarity).        *)
(***************************************************************************)
WeightOf(key, it) == interpret(parse(key).ast, Rat(it.rarity, 1))

Aligned(h, b) ==
    /\ Len(b._weights) = Len(b.items)
    /\ \A i \in 1..Len(b.items) :
          WeightOf(b.key, h[b.items[i]]) = Value(b._weights[i])

C13_WeightsAlignedUnderBannerOperations ==
    \A b \in BannerObjs : banner[b] # None => Aligned(item, banner[b])

(***************************************************************************)
(* gachapy/controller.py.  The controller is the state itself: pool is     *)
(* self.items, banners is self.banners, players is self.players.           *)
(***************************************************************************)
Player(name, id, items, money) ==
    [type |-> "Player", name |-> name, id |-> id, items |-> items,
     money |-> money]

First(S) == CHOOSE i \in S : \A j \in S : i <= j

find_item_by_id_blind(item_id) == None

find_item_by_id(item_id) ==
    IF \E i \in 1..Len(pool) : item[pool[i]].id = item_id
    THEN Ref(pool[First({i \in 1..Len(pool) : item[pool[i]].id = item_id})])
    ELSE None

find_banner_by_name(banner_name) ==
    IF \E i \in 1..Len(banners) : banner[banners[i]].name = banner_name
    THEN Ref(banners[First({i \in 1..Len(banners) :
                              banner[banners[i]].name = banner_name})])
    ELSE None

find_player_by_id(player_id) ==
    IF \E i \in 1..Len(players) : player[players[i]].id = player_id
    THEN Ref(players[First({i \in 1..Len(players) :
                              player[players[i]].id = player_id})])
    ELSE None

\* The item references some list holds, and a reference none holds: the
\* object a constructor call returns.
Range(f) == {f[i] : i \in DOMAIN f}

Held ==
    Range(pool)
    \cup UNION {Range(banner[b].items) : b \in {x \in BannerObjs : banner[x] # None}}
    \cup UNION {Range(player[q].items) : q \in {x \in PlayerObjs : player[x] # None}}

New(Objs, held) == CHOOSE o \in Objs : o \notin held

\* "for item in items: if item.id == item_id: items.remove(item)": the
\* loop reads position i of the list as it is then, and list.remove takes
\* out the first element equal to the one read.  st.item is the loop
\* variable, which keeps its last value after the loop.
RECURSIVE sweep(_, _, _, _)
sweep(h, item_id, i, st) ==
    IF i > Len(st.items) THEN st
    ELSE IF h[st.items[i]].id = item_id
    THEN sweep(h, item_id, i + 1,
               [items |-> remove(st.items, index(h, st.items, st.items[i])),
                item |-> st.items[i]])
    ELSE sweep(h, item_id, i + 1, [items |-> st.items, item |-> st.items[i]])

\* The same loop run on the items of each banner, or of each player, of a
\* list of the controller; st.objs gives the fields of the objects.
Swept(objs, r, s) ==
    [objs |-> [objs EXCEPT ![r].items = s.items], item |-> s.item]

RECURSIVE sweep_each(_, _, _, _)
sweep_each(h, item_id, refs, st) ==
    IF refs = <<>> THEN st
    ELSE sweep_each(h, item_id, Tail(refs),
                    Swept(st.objs, refs[1],
                          sweep(h, item_id, 1,
                                [items |-> st.objs[refs[1]].items,
                                 item |-> st.item])))

\* Controller.add_new_banner up to the construction: Banner is called with
\* four arguments, name, the items found, price and key.
Controller_add_new_banner(name, item_list_str, price, key) ==
    IF find_banner_by_name(name) # None THEN Value(None)
    ELSE Banner(item, <<name,
                        [k \in 1..Len(item_list_str) |->
                            find_item_by_id(item_list_str[k])],
                        price, key>>)

(***************************************************************************)
(* A controller constructed over the items i1 and i2, one banner and one   *)
(* player, each holding a list of these items, under the calls             *)
(* add_new_item, remove_item, add_new_banner and remove_banner.  The       *)
(* banner has the rate 1 / rarity that controller.py names as default.     *)
(***************************************************************************)
BannerNames == {"std", "event"}

DropRate == join(<<" ">>, << <<"1">>, <<"/">>, RarityMarker >>)

HeldLists == SeqsUpTo({"i1", "i2"}, MaxItems)

InitController ==
    /\ KeyLangIdle
    /\ MachineIdle
    /\ NoControllers
    /\ item = [o \in ItemObjs |->
                  IF o = "i3" THEN None ELSE Item("sword", IdOf(o), 1)]
    /\ pool \in {<<>>, <<"i1", "i2">>}
    /\ \E items \in HeldLists :
          banner = [b \in BannerObjs |->
                       IF b = "b2" THEN None
                       ELSE Banner(item, <<"std", "std", items, 1, DropRate>>).value]
    /\ \E items \in HeldLists :
          player = [q \in PlayerObjs |->
                       IF q = "p2" THEN None ELSE Player("ann", "p", items, 0)]
    /\ banners = <<"b1">>
    /\ players = <<"p1">>
    /\ last = None

AddNewItem(name, id, r) ==
    /\ IF find_item_by_id(id) # None
       THEN /\ last' = Call("add_new_item", <<name, id, r>>, "none", None)
            /\ UNCHANGED <<item, pool>>
       ELSE /\ ItemObjs \ Held # {}
            /\ item' = [item EXCEPT ![New(ItemObjs, Held)] = Item(name, id, r)]
            /\ pool' = Append(pool, New(ItemObjs, Held))
            /\ last' = Call("add_new_item", <<name, id, r>>, "none",
                            Ref(New(ItemObjs, Held)))
    /\ UNCHANGED <<banner, player, banners, players>>
    /\ UNCHANGED <<keylang, machine, fleet>>

RemoveItem(item_id) ==
    /\ IF find_item_by_id(item_id) = None
       THEN /\ last' = Call("remove_item", <<item_id>>, "none", None)
            /\ UNCHANGED <<pool, banner, player>>
       ELSE LET found == find_item_by_id(item_id).ref
                bs == sweep_each(item, item_id, banners,
                                 [objs |-> banner, item |-> found])
                ps == sweep_each(item, item_id, players,
                                 [objs |-> player, item |-> bs.item])
            IN  /\ pool' = remove(pool, index(item, pool, found))
                /\ banner' = bs.objs
                /\ player' = ps.objs
                /\ last' = Call("remove_item", <<item_id>>, "none", Ref(ps.item))
    /\ UNCHANGED <<item, banners, players>>
    /\ UNCHANGED <<keylang, machine, fleet>>

\* After the construction add_new_banner appends the new banner and
\* returns the class Banner, not the banner.
AddNewBanner(name, item_list_str, price, key) ==
    LET out == Controller_add_new_banner(name, item_list_str, price, key)
        args == <<name, item_list_str, price, key>>
    IN  /\ IF out.kind # "value"
           THEN /\ last' = Call("add_new_banner", args, out.kind, None)
                /\ UNCHANGED <<banner, banners>>
           ELSE IF out.value = None
           THEN /\ last' = Call("add_new_banner", args, "none", None)
                /\ UNCHANGED <<banner, banners>>
           ELSE /\ banner' = [banner EXCEPT
                                ![New(BannerObjs, Range(banners))] = out.value]
                /\ banners' = Append(banners, New(BannerObjs, Range(banners)))
                /\ last' = Call("add_new_banner", args, "none",
                                [type |-> "type", name |-> "Banner"])
        /\ UNCHANGED <<item, player, pool, players>>
        /\ UNCHANGED <<keylang, machine, fleet>>

\* remove_banner reads self.banner, an attribute no Controller has, when
\* it has found the banner.
RemoveBanner(name) ==
    /\ last' = IF find_banner_by_name(name) # None
               THEN Call("remove_banner", <<name>>, "AttributeError", None)
               ELSE Call("remove_banner", <<name>>, "none", None)
    /\ UNCHANGED <<item, banner, player, pool, banners, players>>
    /\ UNCHANGED <<keylang, machine, fleet>>

NextController ==
    \/ \E n \in ItemNames, i \in ItemIds, r \in GivenRarities : AddNewItem(n, i, r)
    \/ \E o \in ItemObjs, r \in GivenRarities : ChangeRarity(o, r)
    \/ \E i \in ItemIds : RemoveItem(i)
    \/ \E n \in BannerNames, l \in {<<>>, <<"a">>} : AddNewBanner(n, l, 1, DropRate)
    \/ \E n \in BannerNames : RemoveBanner(n)

SpecController == InitController /\ [][NextController]_vars

(***************************************************************************)
(* C14.  Whenever a banner's item list changes through the controller,     *)
(* its weights are recomputed: a Controller.remove_item call that takes    *)
(* an item out of an aligned banner leaves that banner with _weights as    *)
(* long as items and _weights[i] the weight of items[i].                   *)
(***************************************************************************)
C14_RemoveItemRecomputesWeights ==
    [][ last'.op = "remove_item"
        => \A b \in BannerObjs :
              /\ banner[b] # None
              /\ Aligned(item, banner[b])
              /\ banner'[b].items # banner[b].items
              => Aligned(item', banner'[b]) ]_vars

(***************************************************************************)
(* C18.  Item ids are unique in a controller: no two items of the pool     *)
(* share an id in any state reached by add_new_item and remove_item        *)
(* calls; add_new_item with an id already present returns None and         *)
(* leaves the pool unchanged, and with a new id appends exactly one item   *)
(* with the given name, id and rarity and returns it.                      *)
(***************************************************************************)
PoolIdsUnique ==
    \A i, j \in 1..Len(pool) : item[pool[i]].id = item[pool[j]].id => i = j

AddNewItemContract ==
    last'.op = "add_new_item"
    => /\ last'.exc = "none"
       /\ IF \E i \in 1..Len(pool) : item[pool[i]].id = last'.args[2]
          THEN /\ last'.ret = None
               /\ pool' = pool
               /\ \A i \in 1..Len(pool) : item'[pool[i]] = item[pool[i]]
          ELSE /\ last'.ret # None
               /\ pool' = Append(pool, last'.ret.ref)
               /\ last'.ret.ref \notin Held
               /\ item'[last'.ret.ref] =
                     Item(last'.args[1], last'.args[2], last'.args[3])
               /\ \A i \in 1..Len(pool) : item'[pool[i]] = item[pool[i]]

C18_ItemIdsUnique == []PoolIdsUnique /\ [][AddNewItemContract]_vars

\* A second item has been added behind one with another id, and an
\* add_new_item with a present id has returned None.
C18_Witness ==
    /\ last # None
    /\ last.op = "add_new_item"
    /\ last.ret = None
    /\ Len(pool) = 2
    /\ pool[2] = "i3"
    /\ item[pool[2]].id = last.args[2]
    /\ item[pool[2]].rarity # last.args[3]

(***************************************************************************)
(* C19.  add_new_banner with a name that no banner uses adds exactly one   *)
(* banner with that name, the items named by the id list and the given     *)
(* price, and returns that Banner object, which find_banner_by_name(name)  *)
(* then returns; with a name in use it returns None and changes nothing.   *)
(***************************************************************************)
C19_AddNewBanner ==
    [][ \A n \in BannerNames :
          last'.op = "add_new_banner" /\ last'.args[1] = n
          => /\ last'.exc = "none"
             /\ IF find_banner_by_name(n) # None
                THEN /\ last'.ret = None
                     /\ UNCHANGED <<banner, banners>>
                ELSE /\ Len(banners') = Len(banners) + 1
                     /\ SubSeq(banners', 1, Len(banners)) = banners
                     /\ last'.ret = Ref(banners'[Len(banners')])
                     /\ last'.ret = find_banner_by_name(n)'
                     /\ banner'[last'.ret.ref].name = n
                     /\ banner'[last'.ret.ref].price = last'.args[3]
                     /\ banner'[last'.ret.ref].items =
                           [k \in 1..Len(last'.args[2]) |->
                               find_item_by_id(last'.args[2][k]).ref] ]_vars

(***************************************************************************)
(* C20.  remove_banner(name) for a banner that exists removes it from the  *)
(* controller and returns it, and find_banner_by_name(name) is None        *)
(* afterwards; when no banner has that name it returns None and changes    *)
(* nothing.                                                                *)
(***************************************************************************)
C20_RemoveBanner ==
    [][ \A n \in BannerNames :
          last'.op = "remove_banner" /\ last'.args[1] = n
          => /\ last'.exc = "none"
             /\ IF find_banner_by_name(n) # None
                THEN /\ last'.ret = find_banner_by_name(n)
                     /\ Len(banners') = Len(banners) - 1
                     /\ find_banner_by_name(n)' = None
                ELSE /\ last'.ret = None
                     /\ UNCHANGED <<banner, banners>> ]_vars

(***************************************************************************)
(* Pulling.  Player.change_money and Player.add_item of objects.py,        *)
(* random.choices as Banner.pull calls it, and Controller.pull.            *)
(***************************************************************************)
MaxMoney == 2

Player_change_money_unchecked(self, amount) ==
    Done([self EXCEPT !.money = @ + amount], "none", True)

Player_change_money_granted(self, amount) == Done(self, "none", True)

Player_change_money(self, amount) ==
    IF amount < 0 /\ self.money + amount < 0 THEN Done(self, "none", False)
    ELSE Done([self EXCEPT !.money = @ + amount], "none", True)

Player_add_item_dropped(self, o) == self

Player_add_item(self, o) == [self EXCEPT !.items = Append(@, o)]

RECURSIVE sum(_)
sum(ws) ==
    IF ws = <<>> THEN Rat(0, 1)
    ELSE float_add(Value(ws[1]), Value(sum(Tail(ws)))).value

\* random.choices(population, weights=weights, k=1)[0]: the outcomes over
\* all values of random().  It raises ValueError when the lists differ in
\* length, IndexError on the empty population, ValueError when the
\* weights total zero or less; otherwise it returns the element whose
\* stretch of the cumulated weights holds random() * total, that is any
\* element of positive weight.  With a negative weight the cumulated
\* weights are not sorted and any element may come out of the bisection.
choices(population, weights) ==
    IF Len(weights) # Len(population) THEN {Raised("ValueError")}
    ELSE IF population = <<>> THEN {Raised("IndexError")}
    ELSE IF sum(weights).num <= 0 THEN {Raised("ValueError")}
    ELSE {Value(population[i]) :
            i \in {k \in 1..Len(population) :
                     \/ weights[k].num > 0
                     \/ \E j \in 1..Len(weights) : weights[j].num < 0}}

Banner_pull(self) == choices(self.items, self._weights)

(***************************************************************************)
(* A controller over the items i1 (rarity 1) and i2 (rarity 2), one        *)
(* banner and the two players p and q with empty inventories, under        *)
(* Player.change_money and Controller.pull.  With the key 2 - R the item   *)
(* of rarity 2 has weight zero.                                            *)
(***************************************************************************)
Prices == {1, 2}

Amounts == {-2, -1, 1, 2}

PlayerIds == {"p", "q", "nobody"}

PullKeys == {DropRate, join(<<" ">>, << <<"2">>, <<"-">>, RarityMarker >>)}

InitPull ==
    /\ KeyLangIdle
    /\ MachineIdle
    /\ NoControllers
    /\ item = [o \in ItemObjs |->
                  IF o = "i3" THEN None
                  ELSE Item("sword", IdOf(o), IF o = "i2" THEN 2 ELSE 1)]
    /\ pool = <<"i1", "i2">>
    /\ \E items \in {<<>>, <<"i1">>, <<"i2">>, <<"i1", "i2">>},
          price \in Prices, key \in PullKeys :
          banner = [b \in BannerObjs |->
                       IF b = "b2" THEN None
                       ELSE Banner(item, <<"std", "std", items, price, key>>).value]
    /\ \E m1, m2 \in 0..MaxMoney :
          player = [q \in PlayerObjs |->
                       IF q = "p1" THEN Player("ann", "p", <<>>, m1)
                       ELSE Player("bob", "q", <<>>, m2)]
    /\ banners = <<"b1">>
    /\ players = <<"p1", "p2">>
    /\ last = None

ChangeMoney(q, amount) ==
    /\ player[q].money + amount <= MaxMoney
    /\ player' = [player EXCEPT ![q] = Player_change_money(player[q], amount).self]
    /\ last' = Call("Player.change_money", <<q, amount>>, "none",
                    Player_change_money(player[q], amount).ret)
    /\ UNCHANGED <<item, banner, pool, banners, players>>
    /\ UNCHANGED <<keylang, machine, fleet>>

\* Controller.pull: the money is taken before Banner.pull is called, and
\* stays taken when Banner.pull raises.
Pull(player_id, banner_name) ==
    LET p == find_player_by_id(player_id)
        b == find_banner_by_name(banner_name)
        args == <<player_id, banner_name>>
    IN  /\ IF p = None \/ b = None
           THEN /\ last' = Call("pull", args, "PullError", None)
                /\ UNCHANGED player
           ELSE IF Player_change_money(player[p.ref],
                                       -1 * banner[b.ref].price).ret = False
           THEN /\ last' = Call("pull", args, "none", None)
                /\ UNCHANGED player
           ELSE /\ Len(player[p.ref].items) < MaxItems
                /\ \E d \in Banner_pull(banner[b.ref]) :
                      IF d.kind # "value"
                      THEN /\ player' = [player EXCEPT ![p.ref] =
                                  Player_change_money(
                                      @, -1 * banner[b.ref].price).self]
                           /\ last' = Call("pull", args, d.kind, None)
                      ELSE /\ player' = [player EXCEPT ![p.ref] =
                                  Player_add_item(
                                      Player_change_money(
                                          @, -1 * banner[b.ref].price).self,
                                      d.value)]
                           /\ last' = Call("pull", args, "none", Ref(d.value))
        /\ UNCHANGED <<item, banner, pool, banners, players>>
        /\ UNCHANGED <<keylang, machine, fleet>>

(***************************************************************************)
(* Controller.top_items and Controller.top_players.  sorted with           *)
(* reverse=True gives the elements by descending key and keeps the list    *)
(* order of elements with equal keys; key maps each reference to its sort  *)
(* key.  s[: stop] is the Python slice.                                    *)
(***************************************************************************)
RECURSIVE sorted(_, _)
Largest(s, key) ==
    First({k \in 1..Len(s) : \A j \in 1..Len(s) : key[s[j]] <= key[s[k]]})

sorted(s, key) ==
    IF s = <<>> THEN <<>>
    ELSE <<s[Largest(s, key)]>> \o sorted(remove(s, Largest(s, key)), key)

slice(s, stop) ==
    IF stop >= 0
    THEN SubSeq(s, 1, IF stop < Len(s) THEN stop ELSE Len(s))
    ELSE SubSeq(s, 1, IF Len(s) + stop > 0 THEN Len(s) + stop ELSE 0)

RECURSIVE sort_player_key(_)
sort_player_key(items) ==
    IF items = <<>> THEN 0
    ELSE item[items[1]].rarity + sort_player_key(Tail(items))

\* The names a function of controller.py can read: its own top-level
\* names and what "from gachapy.objects import *" brings, which leaves
\* out the names that start with an underscore.
ControllerNames ==
    {"Optional", "default_key", "PullError", "Controller", "sort_player_key",
     "Item", "Banner", "Player", "random", "List", "parse", "interpret"}

List(s) == [type |-> "list", value |-> s]

top_items(num_items) ==
    IF "sort_item_key" \notin ControllerNames THEN Raised("NameError")
    ELSE Value(List(slice(sorted(pool, [o \in Range(pool) |-> item[o].rarity]),
                          num_items - 1)))

top_players(num_players) ==
    IF "sort_player_key" \notin ControllerNames THEN Raised("NameError")
    ELSE Value(List(slice(sorted(players,
                                 [q \in Range(players) |->
                                     sort_player_key(player[q].items)]),
                          num_players - 1)))

Counts == {1, 2}

TopItems(n) ==
    /\ last' = IF top_items(n).kind # "value"
               THEN Call("top_items", <<n>>, top_items(n).kind, None)
               ELSE Call("top_items", <<n>>, "none", top_items(n).value)
    /\ UNCHANGED <<item, banner, player, pool, banners, players>>
    /\ UNCHANGED <<keylang, machine, fleet>>

TopPlayers(n) ==
    /\ last' = IF top_players(n).kind # "value"
               THEN Call("top_players", <<n>>, top_players(n).kind, None)
               ELSE Call("top_players", <<n>>, "none", top_players(n).value)
    /\ UNCHANGED <<item, banner, player, pool, banners, players>>
    /\ UNCHANGED <<keylang, machine, fleet>>

NextPull ==
    \/ \E q \in PlayerObjs, amount \in Amounts : ChangeMoney(q, amount)
    \/ \E i \in PlayerIds, n \in BannerNames : Pull(i, n)
    \/ \E n \in Counts : TopItems(n)
    \/ \E n \in Counts : TopPlayers(n)

SpecPull == InitPull /\ [][NextPull]_vars

(***************************************************************************)
(* C15.  A player's money never becomes negative under change_money and    *)
(* pull calls; change_money(amount) returns False and leaves the money     *)
(* unchanged exactly when amount < 0 and money + amount < 0, and           *)
(* otherwise sets the money to money + amount and returns True.            *)
(***************************************************************************)
MoneyNonNegative ==
    \A q \in PlayerObjs : player[q] # None => player[q].money >= 0

ChangeMoneyContract ==
    \A q \in PlayerObjs, amount \in Amounts :
       last'.op = "Player.change_money" /\ last'.args = <<q, amount>>
       => /\ last'.exc = "none"
          /\ IF amount < 0 /\ player[q].money + amount < 0
             THEN last'.ret = False /\ player'[q] = player[q]
             ELSE /\ last'.ret = True
                  /\ player'[q] = [player[q] EXCEPT !.money = @ + amount]

C15_MoneyNeverNegative == []MoneyNonNegative /\ [][ChangeMoneyContract]_vars

\* A withdrawal of 2 from a player who has 1 has been refused.
C15_Witness ==
    /\ last # None
    /\ last.op = "Player.change_money"
    /\ last.args[2] = -2
    /\ last.ret = False
    /\ player[last.args[1]].money = 1

(***************************************************************************)
(* C16.  A pull that cannot proceed changes nothing: pull raises           *)
(* PullError when no player has the id or no banner has the name, and      *)
(* returns None when the player has less money than the banner's price;    *)
(* in the three cases the players' money and inventories and the           *)
(* banners' items are as before the call.                                  *)
(***************************************************************************)
NoPlayer(i) == \A k \in 1..Len(players) : player[players[k]].id # i

NoBanner(n) == \A k \in 1..Len(banners) : banner[banners[k]].name # n

PlayerWith(i) == CHOOSE q \in Range(players) : player[q].id = i

BannerNamed(n) == CHOOSE b \in Range(banners) : banner[b].name = n

C16_RefusedPullChangesNothing ==
    [][ \A i \in PlayerIds, n \in BannerNames :
          last'.op = "pull" /\ last'.args = <<i, n>>
          => /\ NoPlayer(i) \/ NoBanner(n)
                => /\ last'.exc = "PullError"
                   /\ UNCHANGED <<player, banner, players, banners>>
             /\ /\ ~NoPlayer(i)
                /\ ~NoBanner(n)
                /\ player[PlayerWith(i)].money < banner[BannerNamed(n)].price
                => /\ last'.exc = "none"
                   /\ last'.ret = None
                   /\ UNCHANGED <<player, banner, players, banners>> ]_vars

\* p has 1, the banner costs 2, and the pull of p has returned None.
C16_Witness ==
    /\ last # None
    /\ last.op = "pull"
    /\ last.args = <<"p", "std">>
    /\ last.exc = "none"
    /\ last.ret = None
    /\ player["p1"].money = 1
    /\ banner["b1"].price = 2

(***************************************************************************)
(* C17.  A successful pull: when the player and the banner exist, the      *)
(* player has at least the price and the banner can be drawn from (it has  *)
(* items, as many weights as items and a positive total weight), pull      *)
(* returns an item of the banner's items, the player's money decreases by  *)
(* exactly the price, the player's inventory grows by exactly that item,   *)
(* and the banner and the other players are unchanged.                     *)
(***************************************************************************)
Stocked(b) ==
    /\ b.items # <<>>
    /\ Len(b._weights) = Len(b.items)
    /\ sum(b._weights).num > 0

C21_RemoveItemReturnsRemoved ==
    [][ \A i \in ItemIds :
          last'.op = "remove_item" /\ last'.args = <<i>>
          => /\ last'.exc = "none"
             /\ IF find_item_by_id(i) # None
                THEN /\ last'.ret = find_item_by_id(i)
                     /\ item[last'.ret.ref].id = i
                     /\ last'.ret.ref \notin Range(pool')
                ELSE /\ last'.ret = None
                     /\ UNCHANGED <<item, banner, player, pool, banners,
                                    players>> ]_vars

(***************************************************************************)
(* C22.  Controller.remove_item cascades completely: after remove_item(id) *)
(* has returned for an item of the pool, no banner's item list and no      *)
(* player's inventory holds an item with that id, also when a banner or a  *)
(* player held that item more than once.                                   *)
(***************************************************************************)
Holds(items, i) == \E k \in 1..Len(items) : item[items[k]].id = i

C22_RemoveItemCascades ==
    [][ \A i \in ItemIds :
          /\ last'.op = "remove_item"
          /\ last'.args = <<i>>
          /\ find_item_by_id(i) # None
          => /\ \A b \in Range(banners) : ~Holds(banner'[b].items, i)
             /\ \A q \in Range(players) : ~Holds(player'[q].items, i) ]_vars

(***************************************************************************)
(* C23.  top_items(n) returns exactly n items when the pool holds at       *)
(* least n, the n items of highest rarity in descending order;             *)
(* top_players(n) returns exactly n players when at least n are enrolled,  *)
(* the n of highest net worth in descending order.                         *)
(***************************************************************************)
TopOf(res, s, key, n) ==
    /\ Len(res) = n
    /\ Cardinality(Range(res)) = n
    /\ Range(res) \subseteq Range(s)
    /\ \A k \in 1..(Len(res) - 1) : key[res[k]] >= key[res[k + 1]]
    /\ \A x \in Range(s) \ Range(res), y \in Range(res) : key[x] <= key[y]

C23_TopItemsAndPlayers ==
    /\ last # None /\ last.op = "top_items" /\ Len(pool) >= last.args[1]
       => /\ last.exc = "none"
          /\ TopOf(last.ret.value, pool,
                   [o \in Range(pool) |-> item[o].rarity], last.args[1])
    /\ last # None /\ last.op = "top_players" /\ Len(players) >= last.args[1]
       => /\ last.exc = "none"
          /\ TopOf(last.ret.value, players,
                   [q \in Range(players) |-> sort_player_key(player[q].items)],
                   last.args[1])

\* The half of C23 about top_players alone.
C23_TopPlayersOnly ==
    last # None /\ last.op = "top_players" /\ Len(players) >= last.args[1]
    => /\ last.exc = "none"
       /\ TopOf(last.ret.value, players,
                [q \in Range(players) |-> sort_player_key(player[q].items)],
                last.args[1])

(***************************************************************************)
(* C24.  Item rarity invariant: every Item has rarity >= 1 in every        *)
(* reachable state, after construction and after any change_rarity         *)
(* calls; change_rarity(r) with an invalid r returns False and leaves the  *)
(* rarity unchanged, and with a valid r sets the rarity to r and returns   *)
(* True.                                                                   *)
(***************************************************************************)
RarityValid == \A o \in ItemObjs : item[o] # None => item[o].rarity >= 1

ChangeRarityContract ==
    \A o \in ItemObjs, r \in GivenRarities :
       last'.op = "Item.change_rarity" /\ last'.args = <<o, r>>
       => /\ last'.exc = "none"
          /\ IF r < 1
             THEN last'.ret = False /\ item'[o] = item[o]
             ELSE /\ last'.ret = True
                  /\ item'[o] = [item[o] EXCEPT !.rarity = r]

C24_RarityAtLeastOne == []RarityValid /\ [][ChangeRarityContract]_vars

\* The half of C24 about change_rarity alone.
C24_ChangeRarityOnly == [][ChangeRarityContract]_vars

(***************************************************************************)
(* C30.  A banner's weights track the current rarity of its items: after   *)
(* Item.change_rarity has succeeded on an item of an aligned banner, and   *)
(* before any other banner operation, that banner's _weights[i] is         *)
(* interpret(parse(key), items[i].rarity) for every i.                     *)
(***************************************************************************)
C30_WeightsTrackRarity ==
    [][ \A o \in ItemObjs :
          /\ last'.op = "Item.change_rarity"
          /\ last'.args[1] = o
          /\ last'.ret = True
          => \A b \in BannerObjs :
                /\ banner[b] # None
                /\ o \in Range(banner[b].items)
                /\ Aligned(item, banner[b])
                => Aligned(item', banner'[b]) ]_vars

(***************************************************************************)
(* C29.  Controller.pull is all-or-nothing: whatever a pull gives (an      *)
(* item, None or an exception), either the player's money has gone down    *)
(* by the banner's price and the inventory has gained exactly one item,    *)
(* or money and inventory are both unchanged, also when the banner has no  *)
(* items or no weight to draw from.                                        *)
(***************************************************************************)
C29_PullAllOrNothing ==
    [][ last'.op = "pull"
        => \A q \in PlayerObjs :
              \/ player'[q] = player[q]
              \/ /\ player'[q].money < player[q].money
                 /\ \E b \in BannerObjs :
                       /\ banner[b] # None
                       /\ banner[b].name = last'.args[2]
                       /\ player'[q].money = player[q].money - banner[b].price
                 /\ \E o \in ItemObjs :
                       player'[q].items = Append(player[q].items, o) ]_vars

(***************************************************************************)
(* The parser and the interpreter call by call.  heap is the list of the   *)
(* Ast objects in the order of their construction; the address of a node   *)
(* is its position, and left and right hold addresses.  stack is the call  *)
(* stack of parse: a frame names the function, the place it has reached,   *)
(* and its local left operand and operator.  toks is the one token list    *)
(* all the calls pop from.  returned is the value the last call returned   *)
(* or the exception that left parse.  thread[t] is a thread inside         *)
(* interpret: its rarity argument, its own call stack and the value its    *)
(* last call returned.                                                     *)
(***************************************************************************)
MaxTokens == 3

Frame(fn, at, left, data) ==
    [fn |-> fn, at |-> at, left |-> left, data |-> data]

Machine(h, ts, st, r) ==
    [heap |-> h, toks |-> ts, stack |-> st, returned |-> r]

Top(st) == st[Len(st)]

Pop(st) == SubSeq(st, 1, Len(st) - 1)

\* The caller goes on to the place at and the callee starts.
call(st, at, fn) ==
    Append([st EXCEPT ![Len(st)].at = at], Frame(fn, "start", None, None))

\* An exception no function of the parser catches.
raise(m, exc) == [m EXCEPT !.stack = <<>>, !.returned = Raised(exc)]

\* A constructor call that gives an equal node made before.
new_interned(h, node) ==
    IF \E a \in 1..Len(h) : h[a] = node
    THEN [heap |-> h, at |-> Ref(First({a \in 1..Len(h) : h[a] = node}))]
    ELSE [heap |-> Append(h, node), at |-> Ref(Len(h) + 1)]

\* A constructor call: a new object.
new(h, node) == [heap |-> Append(h, node), at |-> Ref(Len(h) + 1)]

construct(m, node) ==
    [m EXCEPT !.heap = new(m.heap, node).heap,
              !.stack = Pop(@),
              !.returned = Value(new(m.heap, node).at)]

\* The three functions of one shape: the function each calls for its
\* operand, the tokens it takes as its operator, the class of its node.
Levels ==
    [_parse_expr |-> [callee |-> "_parse_term",
                      operators |-> {<<"+">>, <<"-">>}, class |-> "_Expr"],
     _parse_term |-> [callee |-> "_parse_factor",
                      operators |-> {<<"*">>, <<"/">>}, class |-> "_Term"],
     _parse_factor |-> [callee |-> "_parse_base",
                        operators |-> {<<"^">>}, class |-> "_Factor"]]

\* _parse_expr, _parse_term and _parse_factor building a node of their
\* class also when no operator follows the operand.
parse_level_unit(fn, m) ==
    CASE Top(m.stack).at = "start" ->
           [m EXCEPT !.stack = call(@, "operand", Levels[fn].callee)]
      [] Top(m.stack).at = "operand" ->
           IF Len(m.toks) # 0 /\ m.toks[1] \in Levels[fn].operators
           THEN [m EXCEPT
                   !.toks = Tail(@),
                   !.stack = call([@ EXCEPT ![Len(@)].left = m.returned.value,
                                            ![Len(@)].data = m.toks[1][1]],
                                  "right", fn),
                   !.returned = None]
           ELSE construct(m, Ast(Levels[fn].class, m.returned.value, None, None))
      [] Top(m.stack).at = "right" ->
           construct(m, Ast(Levels[fn].class, Top(m.stack).left,
                            m.returned.value, Top(m.stack).data))

\* One step of _parse_expr, _parse_term or _parse_factor: the call of the
\* next level; after it returned, the test of the next token and the
\* recursive call; after that returned, the node.
parse_level(fn, m) ==
    CASE Top(m.stack).at = "start" ->
           [m EXCEPT !.stack = call(@, "operand", Levels[fn].callee)]
      [] Top(m.stack).at = "operand" ->
           IF Len(m.toks) # 0 /\ m.toks[1] \in Levels[fn].operators
           THEN [m EXCEPT
                   !.toks = Tail(@),
                   !.stack = call([@ EXCEPT ![Len(@)].left = m.returned.value,
                                            ![Len(@)].data = m.toks[1][1]],
                                  "right", fn),
                   !.returned = None]
           ELSE [m EXCEPT !.stack = Pop(@)]
      [] Top(m.stack).at = "right" ->
           construct(m, Ast(Levels[fn].class, Top(m.stack).left,
                            m.returned.value, Top(m.stack).data))

\* One step of _parse_base; return _parse_const(tokens) hands the frame over.
parse_base(m) ==
    CASE Top(m.stack).at = "start" ->
           IF Len(m.toks) = 0 THEN raise(m, "SyntaxError")
           ELSE IF m.toks[1] = LParen
           THEN [m EXCEPT !.toks = Tail(@),
                          !.stack = call(@, "close", "_parse_expr")]
           ELSE [m EXCEPT !.stack = Append(Pop(@),
                              Frame("_parse_const", "start", None, None))]
      [] Top(m.stack).at = "close" ->
           IF Len(m.toks) = 0 THEN raise(m, "IndexError")
           ELSE IF m.toks[1] # RParen
           THEN raise([m EXCEPT !.toks = Tail(@)], "SyntaxError")
           ELSE [m EXCEPT !.toks = Tail(@), !.stack = Pop(@)]

parse_const(m) ==
    IF m.toks[1] = RarityMarker THEN construct(m, _Rar)
    ELSE IF float(m.toks[1]).kind = "value"
    THEN construct([m EXCEPT !.toks = Tail(@)], _Float(float(m.toks[1]).value))
    ELSE raise([m EXCEPT !.toks = Tail(@)], "SyntaxError")

\* A frame of interpret: the node, the place reached, the branch taken on
\* the node's class and data, and the value of the left operand.
Visit(ast) == [ast |-> ast, at |-> "start", branch |-> None, left |-> None]

Branch(node) ==
    CASE node.type = "_Expr" -> IF node.data = "+" THEN "+" ELSE "-"
      [] node.type = "_Term" -> IF node.data = "*" THEN "*" ELSE "/"
      [] node.type = "_Factor" -> "**"

Binary(branch, x, y) ==
    CASE branch = "+" -> float_add(x, y)
      [] branch = "-" -> float_sub(x, y)
      [] branch = "*" -> float_mul(x, y)
      [] branch = "/" -> float_truediv(x, y)
      [] branch = "**" -> float_pow(x, y)

answer(h, th, v) ==
    [heap |-> h,
     thread |-> IF v.kind = "value"
                THEN [th EXCEPT !.stack = Pop(@), !.returned = v]
                ELSE [th EXCEPT !.stack = <<>>, !.returned = v]]

\* interpret storing the value of an operator node in the node.
interpret_step_folding(h, th) ==
    CASE Top(th.stack).ast = None -> answer(h, th, Raised("TypeError"))
      [] h[Top(th.stack).ast.ref].type = "_Float" ->
           answer(h, th, Value(h[Top(th.stack).ast.ref].data))
      [] h[Top(th.stack).ast.ref].type = "_Rar" ->
           answer(h, th, Value(th.rarity))
      [] OTHER ->
           CASE Top(th.stack).at = "start" ->
                  [heap |-> h,
                   thread |-> [th EXCEPT
                      !.stack = Append(
                          [@ EXCEPT ![Len(@)].at = "left",
                                    ![Len(@)].branch = Branch(h[Top(th.stack).ast.ref])],
                          Visit(h[Top(th.stack).ast.ref].left))]]
             [] Top(th.stack).at = "left" ->
                  [heap |-> h,
                   thread |-> [th EXCEPT
                      !.stack = Append(
                          [@ EXCEPT ![Len(@)].at = "right",
                                    ![Len(@)].left = th.returned],
                          Visit(h[Top(th.stack).ast.ref].right)),
                      !.returned = None]]
             [] Top(th.stack).at = "right" ->
                  IF Binary(Top(th.stack).branch, Top(th.stack).left,
                            th.returned).kind = "value"
                  THEN answer([h EXCEPT ![Top(th.stack).ast.ref] =
                                  _Float(Binary(Top(th.stack).branch,
                                                Top(th.stack).left,
                                                th.returned).value)],
                              th,
                              Binary(Top(th.stack).branch, Top(th.stack).left,
                                     th.returned))
                  ELSE answer(h, th,
                              Binary(Top(th.stack).branch, Top(th.stack).left,
                                     th.returned))

\* One step of interpret in a thread: a leaf returns its value; an operator
\* node takes its branch and calls interpret on ast.left, then on
\* ast.right, then returns the result of the operation or raises.  No case
\* matches None: the call returns None and the operation of the caller
\* raises TypeError.
interpret_step(h, th) ==
    CASE Top(th.stack).ast = None -> answer(h, th, Raised("TypeError"))
      [] h[Top(th.stack).ast.ref].type = "_Float" ->
           answer(h, th, Value(h[Top(th.stack).ast.ref].data))
      [] h[Top(th.stack).ast.ref].type = "_Rar" ->
           answer(h, th, Value(th.rarity))
      [] OTHER ->
           CASE Top(th.stack).at = "start" ->
                  [heap |-> h,
                   thread |-> [th EXCEPT
                      !.stack = Append(
                          [@ EXCEPT ![Len(@)].at = "left",
                                    ![Len(@)].branch = Branch(h[Top(th.stack).ast.ref])],
                          Visit(h[Top(th.stack).ast.ref].left))]]
             [] Top(th.stack).at = "left" ->
                  [heap |-> h,
                   thread |-> [th EXCEPT
                      !.stack = Append(
                          [@ EXCEPT ![Len(@)].at = "right",
                                    ![Len(@)].left = th.returned],
                          Visit(h[Top(th.stack).ast.ref].right)),
                      !.returned = None]]
             [] Top(th.stack).at = "right" ->
                  answer(h, th,
                         Binary(Top(th.stack).branch, Top(th.stack).left,
                                th.returned))

(***************************************************************************)
(* The state machine: parse(src) runs to its return or its exception;      *)
(* then the threads call interpret on the AST it returned, each with its   *)
(* own rarity, again and again.                                            *)
(***************************************************************************)
MachineSources ==
    {join(<<" ">>, ts) :
        ts \in SeqsUpTo({<<"0">>, <<"1">>, RarityMarker, <<"+">>, <<"/">>,
                         <<"^">>, LParen, RParen, <<"x">>}, MaxTokens)}
    \cup {join(<<" ">>, << <<"1">>, <<"-">>, <<"2">>, <<"*">>, RarityMarker >>),
          join(<<" ">>, << LParen, <<"2">>, <<"-">>, RarityMarker, RParen >>)}

InitMachine ==
    /\ src \in MachineSources
    /\ toks = <<>>
    /\ parsed = None
    /\ rarity = None
    /\ result = None
    /\ pc = "start"
    /\ NoObjects
    /\ MachineIdle
    /\ NoControllers

Becomes(m) ==
    /\ heap' = m.heap
    /\ toks' = m.toks
    /\ stack' = m.stack
    /\ returned' = m.returned

ParseCall ==
    /\ pc = "start"
    /\ pc' = "parsing"
    /\ toks' = _tokenize(src)
    /\ stack' = <<Frame("_parse_expr", "start", None, None)>>
    /\ UNCHANGED <<src, parsed, rarity, result, heap, returned, thread>>
    /\ UNCHANGED <<gacha, fleet>>

ParseLevel(fn) ==
    /\ pc = "parsing"
    /\ stack # <<>>
    /\ Top(stack).fn = fn
    /\ Becomes(parse_level(fn, Machine(heap, toks, stack, returned)))
    /\ UNCHANGED <<src, parsed, rarity, result, pc, thread>>
    /\ UNCHANGED <<gacha, fleet>>

ParseBase ==
    /\ pc = "parsing"
    /\ stack # <<>>
    /\ Top(stack).fn = "_parse_base"
    /\ Becomes(parse_base(Machine(heap, toks, stack, returned)))
    /\ UNCHANGED <<src, parsed, rarity, result, pc, thread>>
    /\ UNCHANGED <<gacha, fleet>>

ParseConst ==
    /\ pc = "parsing"
    /\ stack # <<>>
    /\ Top(stack).fn = "_parse_const"
    /\ Becomes(parse_const(Machine(heap, toks, stack, returned)))
    /\ UNCHANGED <<src, parsed, rarity, result, pc, thread>>
    /\ UNCHANGED <<gacha, fleet>>

ParseReturn ==
    /\ pc = "parsing"
    /\ stack = <<>>
    /\ parsed' = returned
    /\ pc' = "parsed"
    /\ UNCHANGED <<src, toks, rarity, result, thread>>
    /\ UNCHANGED <<machine, gacha, fleet>>

Running(t) == thread[t] # None /\ thread[t].stack # <<>>

InterpretCall(t, r) ==
    /\ pc = "parsed"
    /\ parsed.kind = "value"
    /\ ~Running(t)
    /\ \A u \in Threads \ {t} :
          IF thread[u] = None THEN TRUE ELSE thread[u].rarity # r
    /\ thread' = [thread EXCEPT ![t] =
                     [rarity |-> r, stack |-> <<Visit(parsed.value)>>,
                      returned |-> None]]
    /\ UNCHANGED <<heap, stack, returned>>
    /\ UNCHANGED <<keylang, gacha, fleet>>

InterpretStep(t) ==
    /\ Running(t)
    /\ heap' = interpret_step(heap, thread[t]).heap
    /\ thread' = [thread EXCEPT ![t] = interpret_step(heap, thread[t]).thread]
    /\ UNCHANGED <<stack, returned>>
    /\ UNCHANGED <<keylang, gacha, fleet>>

NextMachine ==
    \/ ParseCall
    \/ \E fn \in DOMAIN Levels : ParseLevel(fn)
    \/ ParseBase
    \/ ParseConst
    \/ ParseReturn
    \/ \E t \in Threads, r \in Rarities : InterpretCall(t, r)
    \/ \E t \in Threads : InterpretStep(t)

SpecMachine == InitMachine /\ [][NextMachine]_vars

\* parse, then one thread calling interpret again and again; every step
\* that can be taken is taken in the end.
NextSequential ==
    \/ ParseCall
    \/ \E fn \in DOMAIN Levels : ParseLevel(fn)
    \/ ParseBase
    \/ ParseConst
    \/ ParseReturn
    \/ \E r \in Rarities : InterpretCall("t1", r)
    \/ InterpretStep("t1")

SpecSequential ==
    InitMachine /\ [][NextSequential]_vars /\ WF_vars(NextSequential)

(***************************************************************************)
(* Vocabulary of the properties of the AST as an object graph.             *)
(***************************************************************************)
RECURSIVE TreeOf(_, _), Reach(_, _), Depth(_, _)
\* The tree below the address a, as a value.
TreeOf(h, a) ==
    IF a = None THEN None
    ELSE Ast(h[a.ref].type, TreeOf(h, h[a.ref].left),
             TreeOf(h, h[a.ref].right), h[a.ref].data)

\* The addresses reachable from a.
Reach(h, a) ==
    IF a = None THEN {}
    ELSE {a} \cup Reach(h, h[a.ref].left) \cup Reach(h, h[a.ref].right)

Depth(h, a) ==
    IF a = None THEN 0
    ELSE 1 + (IF Depth(h, h[a.ref].left) >= Depth(h, h[a.ref].right)
              THEN Depth(h, h[a.ref].left) ELSE Depth(h, h[a.ref].right))

ParseReturned == pc = "parsed" /\ parsed.kind = "value"

Finished(t) == thread[t] # None /\ thread[t].stack = <<>>

(***************************************************************************)
(* C25.  Concurrent evaluation of a shared AST needs no locking: in every  *)
(* interleaving of interpret calls of several threads on the AST parse     *)
(* returned, with different rarities, each call returns what interpret     *)
(* returns for that AST and rarity alone, and no step after parse has      *)
(* returned changes a node (left, right, data) of the AST.                 *)
(***************************************************************************)
C25_ConcurrentInterpret ==
    /\ [](\A t \in Threads :
            Finished(t)
            => thread[t].returned = interpret(parse(src).ast, thread[t].rarity))
    /\ [][pc = "parsed" => heap' = heap]_vars

\* Both threads have returned from interpret on a shared AST with an operator
\* over the rarity, each with its own value.
C25_Witness ==
    /\ ParseReturned
    /\ heap[parsed.value.ref].type = "_Term"
    /\ \E a \in 1..Len(heap) : heap[a].type = "_Rar"
    /\ Finished("t1") /\ Finished("t2")
    /\ thread["t1"].returned.kind = "value"
    /\ thread["t2"].returned.kind = "value"
    /\ thread["t1"].returned # thread["t2"].returned

(***************************************************************************)
(* C26.  Every AST parse returns is a well-formed strict binary tree: an   *)
(* operator node has two children that are nodes and an operator of its    *)
(* class (_Expr: + or -, _Term: * or /, _Factor: ^), a leaf is a float     *)
(* literal or the rarity variable and has no children, no node is the      *)
(* child of two nodes or twice of one, and no node is reachable from       *)
(* itself.                                                                 *)
(***************************************************************************)
Addresses(h) == {Ref(a) : a \in 1..Len(h)}

Children(h, a) == {h[a.ref].left, h[a.ref].right} \ {None}

WellFormedNode(h, a) ==
    CASE h[a.ref].type = "_Expr" ->
           /\ h[a.ref].data \in {"+", "-"}
           /\ h[a.ref].left \in Addresses(h) /\ h[a.ref].right \in Addresses(h)
      [] h[a.ref].type = "_Term" ->
           /\ h[a.ref].data \in {"*", "/"}
           /\ h[a.ref].left \in Addresses(h) /\ h[a.ref].right \in Addresses(h)
      [] h[a.ref].type = "_Factor" ->
           /\ h[a.ref].data = "^"
           /\ h[a.ref].left \in Addresses(h) /\ h[a.ref].right \in Addresses(h)
      [] h[a.ref].type = "_Float" ->
           /\ h[a.ref].left = None /\ h[a.ref].right = None
           /\ h[a.ref].data # None /\ h[a.ref].data.den > 0
      [] h[a.ref].type = "_Rar" ->
           h[a.ref].left = None /\ h[a.ref].right = None /\ h[a.ref].data = None
      [] OTHER -> FALSE

Unshared(h, root) ==
    /\ \A a \in Reach(h, root) : h[a.ref].left = None \/ h[a.ref].left # h[a.ref].right
    /\ \A a, b \in Reach(h, root) :
          a # b => Children(h, a) \cap Children(h, b) = {}
    /\ \A a \in Reach(h, root) : root \notin Children(h, a)

Acyclic(h, root) ==
    \A a \in Reach(h, root) :
       a \notin Reach(h, h[a.ref].left) \cup Reach(h, h[a.ref].right)

C26_AstIsStrictBinaryTree ==
    ParseReturned
    => /\ \A a \in Reach(heap, parsed.value) : WellFormedNode(heap, a)
       /\ Unshared(heap, parsed.value)
       /\ Acyclic(heap, parsed.value)

\* parse has returned the AST of "1 - 2 * R": five nodes, two of them
\* operator nodes, two leaves with equal class.
C26_Witness ==
    /\ ParseReturned
    /\ Cardinality(Reach(heap, parsed.value)) = 5
    /\ heap[parsed.value.ref].type = "_Expr"
    /\ heap[heap[parsed.value.ref].right.ref].type = "_Term"

(***************************************************************************)
(* C27.  Parsing and evaluation finish and are bounded by the input:       *)
(* parse returns or raises for every token sequence, the AST it returns    *)
(* has at most as many nodes, and at most the depth, as there are tokens,  *)
(* and every interpret call on an AST parse returned returns or raises.    *)
(***************************************************************************)
BoundedByTokens ==
    ParseReturned
    => /\ Cardinality(Reach(heap, parsed.value)) <= Len(_tokenize(src))
       /\ Depth(heap, parsed.value) <= Len(_tokenize(src))

C27_ParseAndInterpretTerminate ==
    /\ []BoundedByTokens
    /\ <>(pc = "parsed")
    /\ (Running("t1") ~> Finished("t1"))

\* interpret has returned on an AST as deep as it can be for its tokens.
C27_Witness ==
    /\ ParseReturned
    /\ Len(_tokenize(src)) = 3
    /\ Depth(heap, parsed.value) = 2
    /\ Cardinality(Reach(heap, parsed.value)) = 3
    /\ Finished("t1")

(***************************************************************************)
(* Several controllers.  ctrl[c] holds the three fields of controller c,   *)
(* each a reference to a list object; lists gives the elements of each     *)
(* list object.  __init__ binds a parameter the call does not give to the  *)
(* default list object of the function and stores the list it was given.   *)
(***************************************************************************)
Controller(given) ==
    [type |-> "Controller",
     items |-> IF "items" \in DOMAIN given THEN given.items ELSE "items=[]",
     banners |-> IF "banners" \in DOMAIN given THEN given.banners
                 ELSE "banners=[]",
     players |-> IF "players" \in DOMAIN given THEN given.players
                 ELSE "players=[]"]

\* c = Controller()
NewController(c) ==
    /\ ctrl[c] = None
    /\ ctrl' = [ctrl EXCEPT ![c] = Controller(<<>>)]
    /\ last' = Call("Controller", <<c>>, "none", Ref(c))
    /\ UNCHANGED <<lists, item, banner, player, pool, banners, players>>
    /\ UNCHANGED <<keylang, machine>>

\* c.add_new_item(name, id, r)
FleetAddNewItem(c, name, id, r) ==
    /\ ctrl[c] # None
    /\ IF \E k \in 1..Len(lists[ctrl[c].items]) :
             item[lists[ctrl[c].items][k]].id = id
       THEN /\ last' = Call("add_new_item", <<c, name, id, r>>, "none", None)
            /\ UNCHANGED <<item, lists>>
       ELSE /\ Len(lists[ctrl[c].items]) < MaxItems
            /\ ItemObjs \ Range(lists["items=[]"]) # {}
            /\ item' = [item EXCEPT
                          ![New(ItemObjs, Range(lists["items=[]"]))] =
                              Item(name, id, r)]
            /\ lists' = [lists EXCEPT ![ctrl[c].items] =
                            Append(@, New(ItemObjs, Range(lists["items=[]"])))]
            /\ last' = Call("add_new_item", <<c, name, id, r>>, "none",
                            Ref(New(ItemObjs, Range(lists["items=[]"]))))
    /\ UNCHANGED <<ctrl, banner, player, pool, banners, players>>
    /\ UNCHANGED <<keylang, machine>>

\* c.add_new_player(name, id, start_money), items_str left to its default
FleetAddNewPlayer(c, name, id, start_money) ==
    /\ ctrl[c] # None
    /\ IF \E k \in 1..Len(lists[ctrl[c].players]) :
             player[lists[ctrl[c].players][k]].id = id
       THEN /\ last' = Call("add_new_player", <<c, name, id, start_money>>,
                            "none", None)
            /\ UNCHANGED <<player, lists>>
       ELSE /\ PlayerObjs \ Range(lists["players=[]"]) # {}
            /\ player' = [player EXCEPT
                            ![New(PlayerObjs, Range(lists["players=[]"]))] =
                                Player(name, id, <<>>, start_money)]
            /\ lists' = [lists EXCEPT ![ctrl[c].players] =
                            Append(@, New(PlayerObjs,
                                          Range(lists["players=[]"])))]
            /\ last' = Call("add_new_player", <<c, name, id, start_money>>,
                            "none",
                            Ref(New(PlayerObjs, Range(lists["players=[]"]))))
    /\ UNCHANGED <<ctrl, item, banner, pool, banners, players>>
    /\ UNCHANGED <<keylang, machine>>

\* c.remove_player(player_id)
FleetRemovePlayer(c, player_id) ==
    /\ ctrl[c] # None
    /\ IF \E k \in 1..Len(lists[ctrl[c].players]) :
             player[lists[ctrl[c].players][k]].id = player_id
       THEN /\ lists' = [lists EXCEPT ![ctrl[c].players] =
                  remove(@, First({k \in 1..Len(@) :
                                     player[@[k]].id = player_id}))]
            /\ last' = Call("remove_player", <<c, player_id>>, "none",
                  Ref(lists[ctrl[c].players][
                         First({k \in 1..Len(lists[ctrl[c].players]) :
                            player[lists[ctrl[c].players][k]].id = player_id})]))
       ELSE /\ last' = Call("remove_player", <<c, player_id>>, "none", None)
            /\ UNCHANGED lists
    /\ UNCHANGED <<ctrl, item, banner, player, pool, banners, players>>
    /\ UNCHANGED <<keylang, machine>>

NextFleet ==
    \/ \E c \in ControllerObjs : NewController(c)
    \/ \E c \in ControllerObjs, n \in ItemNames, i \in ItemIds,
          r \in ItemRarities : FleetAddNewItem(c, n, i, r)
    \/ \E c \in ControllerObjs, i \in PlayerIds :
          FleetAddNewPlayer(c, "ann", i, 0)
    \/ \E c \in ControllerObjs, i \in PlayerIds : FleetRemovePlayer(c, i)

\* No controller has been made; the default lists are empty.
InitFleet == KeyLangIdle /\ MachineIdle /\ NoObjects /\ NoControllers

SpecFleet == InitFleet /\ [][NextFleet]_vars

(***************************************************************************)
(* C28.  Controllers are independent of each other: of two controllers     *)
(* each made by Controller() with no arguments, an operation on one        *)
(* (add_new_item, add_new_player, remove_player) leaves the items,         *)
(* banners and players of the other as they were.                          *)
(***************************************************************************)
Contents(c) ==
    [items |-> lists[ctrl[c].items],
     banners |-> lists[ctrl[c].banners],
     players |-> lists[ctrl[c].players]]

C28_ControllersIndependent ==
    [][ \A c, d \in ControllerObjs :
          /\ c # d
          /\ ctrl[c] # None /\ ctrl[d] # None
          /\ last'.op \in {"add_new_item", "add_new_player", "remove_player"}
          /\ last'.args[1] = c
          => Contents(d)' = Contents(d) ]_vars

====
